---- MODULE Spec2Model ----
(***************************************************************************)
(* Rtab2csv.py: conversion of a delimited text table to CSV.               *)
(*                                                                         *)
(* Text is a sequence of one-character strings.  The delimiter detector    *)
(* (detect_delimiter) is modelled as an operator computed the way the code *)
(* computes it; main, read_preview and the two conversion paths are        *)
(* actions of a state machine whose position is pc.                        *)
(***************************************************************************)
EXTENDS Integers, Sequences, FiniteSets, TLC

VARIABLES
    nargs,        \* number of positional arguments, len(sys.argv) - 1
    inKind,       \* the input path: "missing", "unopenable" (a directory, no read permission),
                  \* "corrupt" (reading raises), "file"
    intext,       \* the decoded text of the input file
    outKind,      \* the output path: "ok", "unwritable" (open fails), "full" (write fails)
    pandasOk,     \* TRUE iff "import pandas" succeeds
    pc,           \* position in main
    sample,       \* main's local: the preview text
    shown,        \* what line 79 printed: the sample or "(file empty)"
    delim,        \* main's local: the detected delimiter
    handles,      \* the file handles currently open
    outTouched,   \* TRUE once the output path has been opened for writing
    output,       \* the records written to the output file since it was opened
    attempts,     \* history: the conversion attempts and how each ended
    exitStatus,   \* the process exit status, -1 while running
    crashed       \* TRUE iff the process ended by an uncaught exception

vars == <<nargs, inKind, intext, outKind, pandasOk, pc, sample, shown, delim,
          handles, outTouched, output, attempts, exitStatus, crashed>>

(***************************************************************************)
(* Bounds of the model.                                                    *)
(***************************************************************************)
MaxArgs == 3          \* at most this many positional arguments
MaxTextLen == 4       \* input files of at most this many characters
MaxSampleLen == 5     \* detector samples enumerated character by character
MaxCount == 5         \* per-line occurrence counts in the wide detector samples

(***************************************************************************)
(* Characters and strings.                                                 *)
(***************************************************************************)
TAB == "\t"
NL == "\n"
SP == " "

\* str.strip()/lstrip() whitespace that occurs in the modelled alphabets
Whitespace == {TAB, SP, NL}

\* line 21: delims = ["\t", ";", ",", "|", " "]
delims == <<TAB, ";", ",", "|", SP>>

\* line 82: comment_char = "#"
comment_char == "#"

\* line 77: read_preview(inpath, n=20)
PreviewLines == 20

Range(s) == {s[i] : i \in 1..Len(s)}

StringsUpTo(chars, n) == UNION {[1..k -> chars] : k \in 0..n}

RECURSIVE LStrip(_)
\* str.lstrip(): drop the leading whitespace
LStrip(s) ==
    IF s = <<>> THEN <<>>
    ELSE IF Head(s) \in Whitespace THEN LStrip(Tail(s)) ELSE s

RECURSIVE RStrip(_)
\* the trailing half of str.strip()
RStrip(s) ==
    IF s = <<>> THEN <<>>
    ELSE IF s[Len(s)] \in Whitespace THEN RStrip(SubSeq(s, 1, Len(s) - 1)) ELSE s

\* str.strip()
Strip(s) == RStrip(LStrip(s))

RECURSIVE SplitOn(_, _)
\* the fields of s between occurrences of the character d (always at least one)
SplitOn(s, d) ==
    IF \A i \in 1..Len(s) : s[i] # d THEN <<s>>
    ELSE LET p == CHOOSE i \in 1..Len(s) : s[i] = d /\ \A j \in 1..(i - 1) : s[j] # d
         IN  <<SubSeq(s, 1, p - 1)>> \o SplitOn(SubSeq(s, p + 1, Len(s)), d)

\* str.splitlines(), and the lines a text file yields (without their "\n"):
\* a final newline ends the last line and opens no new one
SplitLines(s) ==
    IF s = <<>> THEN <<>>
    ELSE IF s[Len(s)] = NL THEN SplitOn(SubSeq(s, 1, Len(s) - 1), NL)
    ELSE SplitOn(s, NL)

\* str.count(d) for a one-character d
Count(line, d) == Cardinality({i \in 1..Len(line) : line[i] = d})

RECURSIVE Sum(_)
Sum(cs) == IF cs = <<>> THEN 0 ELSE Head(cs) + Sum(Tail(cs))

(***************************************************************************)
(* detect_delimiter                                                        *)
(***************************************************************************)
\* A mutant of NonBlankLines: neither the sample nor its lines are stripped.
NonBlankLinesUnstripped(smp) == SplitLines(smp)

\* lines 22 and 26: the lines of sample.strip() that pass "if line.strip()"
NonBlankLines(smp) ==
    SelectSeq(SplitLines(Strip(smp)), LAMBDA line : Strip(line) # <<>>)

\* line 26: counts = [line.count(d) for line in lines if line.strip()]
Counts(smp, d) ==
    LET ls == NonBlankLines(smp) IN [i \in 1..Len(ls) |-> Count(ls[i], d)]

\* A mutant of ScoreNum: the mean is left out, score = -var.
ScoreNumNoMean(counts) ==
    LET n == Len(counts)
        S == Sum(counts)
        Q == Sum([i \in 1..n |-> counts[i] * counts[i]])
    IN  S * S - n * Q

\* lines 30-32: score = mean - var, with mean = S/n and var = Q/n - (S/n)^2 for
\* S the sum and Q the sum of squares of the n counts.  The model keeps the
\* exact value n^2 * score = n*S + S^2 - n*Q, an integer; n is the same for
\* every candidate of one call, so comparing these compares the scores.
\* Python computes the score in binary floating point: two scores that differ
\* differ by at least 1/n^2, far more than the rounding error, and the
\* arithmetic is exact when n is a power of two; only an exact tie between
\* two different lists of counts over a number of lines that is no power of
\* two can be decided by rounding.
ScoreNum(counts) ==
    LET n == Len(counts)
        S == Sum(counts)
        Q == Sum([i \in 1..n |-> counts[i] * counts[i]])
    IN  n * S + S * S - n * Q

RECURSIVE DetectLoop(_, _, _, _)
\* lines 25-35: the loop over delims from index i, with the running best and
\* best_score (scaled by n^2 like the scores)
DetectLoop(smp, i, best, bestNum) ==
    IF i > Len(delims) THEN best
    ELSE LET counts == Counts(smp, delims[i])
         IN  IF counts = <<>> THEN DetectLoop(smp, i + 1, best, bestNum)
             ELSE IF ScoreNum(counts) > bestNum
                  THEN DetectLoop(smp, i + 1, delims[i], ScoreNum(counts))
                  ELSE DetectLoop(smp, i + 1, best, bestNum)

\* lines 19-36: best = delims[0], best_score = -1 (scaled: -n^2)
detect_delimiter(smp) ==
    LET n == Len(NonBlankLines(smp))
    IN  DetectLoop(smp, 1, delims[1], -(n * n))

(***************************************************************************)
(* read_preview                                                            *)
(***************************************************************************)
RECURSIVE FirstLines(_, _)
\* lines 40-46: the text n calls of readline() return, joined: the first n
\* lines with their newlines, or the whole text when it has fewer
FirstLines(text, n) ==
    IF n = 0 \/ text = <<>> THEN <<>>
    ELSE IF Head(text) = NL THEN <<NL>> \o FirstLines(Tail(text), n - 1)
    ELSE <<Head(text)>> \o FirstLines(Tail(text), n)

\* lines 38-46
read_preview(text, n) == FirstLines(text, n)

\* the message line 79 prints for an empty sample, as a one-token text
FileEmpty == <<"(file empty)">>

\* A mutant of PreviewText: the sample is printed whatever it is.
PreviewTextRaw(smp) == smp

\* line 79: print(sample if sample else "(file empty)")
PreviewText(smp) == IF smp # <<>> THEN smp ELSE FileEmpty

(***************************************************************************)
(* The csv module's reader and writer, for input without quote characters  *)
(***************************************************************************)
\* csv.reader(fin, delimiter=d) on one line: an empty line is the empty row
CsvRow(line, d) == IF line = <<>> THEN <<>> ELSE SplitOn(line, d)

\* csv.writer's minimal quoting: a field holding the output delimiter is quoted
QuoteField(f) == IF "," \in Range(f) THEN <<"\"">> \o f \o <<"\"">> ELSE f

RECURSIVE JoinFields(_)
JoinFields(row) ==
    IF row = <<>> THEN <<>>
    ELSE IF Len(row) = 1 THEN QuoteField(row[1])
    ELSE QuoteField(row[1]) \o <<",">> \o JoinFields(Tail(row))

\* writer.writerow(row), without the line terminator; a row of one empty
\* field is written as "" to tell it from the empty row
WriteRow(row) == IF row = << <<>> >> THEN <<"\"", "\"">> ELSE JoinFields(row)

\* line 64: row and isinstance(row[0], str) and row[0].lstrip().startswith(comment)
SkipsRow(row, comment) ==
    /\ row # <<>>
    /\ LStrip(row[1]) # <<>>
    /\ Head(LStrip(row[1])) = comment

RECURSIVE CopyRows(_, _, _, _)
\* lines 62-66: the records written for the lines from index i on; each record
\* keeps the number of the input line it was read from
CopyRows(lines, i, d, comment) ==
    IF i > Len(lines) THEN <<>>
    ELSE LET row == CsvRow(lines[i], d)
         IN  IF SkipsRow(row, comment) THEN CopyRows(lines, i + 1, d, comment)
             ELSE <<[line |-> i, text |-> WriteRow(row)]>>
                      \o CopyRows(lines, i + 1, d, comment)

\* lines 57-66: what convert_fallback writes when nothing raises
convert_fallback(text, d, comment) == CopyRows(SplitLines(text), 1, d, comment)

(***************************************************************************)
(* convert_with_pandas: pandas.read_csv(sep=d, comment=c, engine="python",  *)
(* dtype=str) followed by DataFrame.to_csv(index=False), as documented      *)
(***************************************************************************)
\* comment=c: the rest of a line from the first comment character on is dropped
Uncomment(line, comment) ==
    IF \A i \in 1..Len(line) : line[i] # comment THEN line
    ELSE SubSeq(line, 1, (CHOOSE i \in 1..Len(line) :
                            line[i] = comment /\ \A j \in 1..(i - 1) : line[j] # comment) - 1)

RECURSIVE PandasRows(_, _, _, _)
\* the rows read_csv keeps from line i on: blank lines and lines left blank
\* once their comment is removed are skipped
PandasRows(lines, i, d, comment) ==
    IF i > Len(lines) THEN <<>>
    ELSE LET kept == Uncomment(lines[i], comment)
         IN  IF Strip(kept) = <<>> THEN PandasRows(lines, i + 1, d, comment)
             ELSE <<[line |-> i, row |-> SplitOn(kept, d)]>>
                      \o PandasRows(lines, i + 1, d, comment)

\* read_csv raises on input without columns (EmptyDataError) and on a data
\* row longer than the header (ParserError)
PandasRaises(text, d, comment) ==
    LET rows == PandasRows(SplitLines(text), 1, d, comment)
    IN  \/ rows = <<>>
        \/ \E i \in 2..Len(rows) : Len(rows[i].row) > Len(rows[1].row)

\* lines 51-54: the header with its names stripped (line 53), then the data
\* rows, short ones filled with empty cells
convert_with_pandas(text, d, comment) ==
    LET rows == PandasRows(SplitLines(text), 1, d, comment)
        width == Len(rows[1].row)
        Cells(i) == [k \in 1..width |->
                        IF k > Len(rows[i].row) THEN <<>>
                        ELSE IF i = 1 THEN Strip(rows[i].row[k]) ELSE rows[i].row[k]]
    IN  [i \in 1..Len(rows) |-> [line |-> rows[i].line, text |-> WriteRow(Cells(i))]]

(***************************************************************************)
(* Scoped file handles                                                     *)
(***************************************************************************)
\* A mutant of WithExit: the handle is not closed when the block is left.
WithExitLeak(hs, h) == hs

\* lines 39 and 59: leaving a "with" block closes its handle, on return and
\* on an exception alike
WithExit(hs, h) == hs \ {h}

(***************************************************************************)
(* Inputs                                                                  *)
(***************************************************************************)
\* the characters of the input files main is run on
TextChars == {TAB, SP, ",", comment_char, "x", NL}

Texts == StringsUpTo(TextChars, MaxTextLen)

\* the characters of the detector samples enumerated exhaustively
SampleChars == Range(delims) \cup {"x", NL}

ShortSamples == StringsUpTo(SampleChars, MaxSampleLen)

RECURSIVE Rep(_, _)
Rep(c, k) == IF k = 0 THEN <<>> ELSE <<c>> \o Rep(c, k - 1)

RECURSIVE Runs(_, _)
\* for each candidate from index i on, a run of cv[i] copies of it
Runs(cv, i) ==
    IF i > Len(delims) THEN <<>> ELSE Rep(delims[i], cv[i]) \o Runs(cv, i + 1)

\* a line "x...x" holding cv[i] copies of the i-th candidate
WideLine(cv) == <<"x">> \o Runs(cv, 1) \o <<"x">>

\* two-line samples: every candidate c1 times on the first line, and any
\* number of times up to MaxCount on the second
WideSamples ==
    {WideLine([i \in 1..Len(delims) |-> c1]) \o <<NL>> \o WideLine(cv) :
        c1 \in 0..1, cv \in [1..Len(delims) -> 0..MaxCount]}

(***************************************************************************)
(* main                                                                    *)
(***************************************************************************)
Init ==
    /\ nargs \in 0..MaxArgs
    /\ inKind \in {"missing", "unopenable", "corrupt", "file"}
    /\ intext \in (IF inKind = "file" THEN Texts ELSE {<<>>})
    /\ outKind \in {"ok", "unwritable", "full"}
    /\ pandasOk \in BOOLEAN
    /\ pc = "args"
    /\ sample = <<>>
    /\ shown = <<>>
    /\ delim = "none"
    /\ handles = {}
    /\ outTouched = FALSE
    /\ output = <<>>
    /\ attempts = <<>>
    /\ exitStatus = -1
    /\ crashed = FALSE

env == <<nargs, inKind, intext, outKind, pandasOk>>

\* sys.exit(code)
Exit(code) ==
    /\ pc' = "done"
    /\ exitStatus' = code
    /\ crashed' = FALSE

\* an exception nothing catches: traceback, exit status 1
Uncaught ==
    /\ pc' = "done"
    /\ exitStatus' = 1
    /\ crashed' = TRUE

\* lines 69-72
CheckArgs ==
    /\ pc = "args"
    /\ IF nargs + 1 < 3
       THEN Exit(1)
       ELSE pc' = "exists" /\ UNCHANGED <<exitStatus, crashed>>
    /\ UNCHANGED <<env, sample, shown, delim, handles, outTouched, output, attempts>>

\* lines 73-75: os.path.exists is true of a directory and of an unreadable file
CheckExists ==
    /\ pc = "exists"
    /\ IF inKind = "missing"
       THEN Exit(2)
       ELSE pc' = "preview" /\ UNCHANGED <<exitStatus, crashed>>
    /\ UNCHANGED <<env, sample, shown, delim, handles, outTouched, output, attempts>>

\* lines 39 and 14-17: read_preview opens the input; open() raises on a directory
\* and on a file that may not be read
PreviewOpen ==
    /\ pc = "preview"
    /\ IF inKind = "unopenable"
       THEN Uncaught /\ UNCHANGED handles
       ELSE /\ handles' = handles \cup {"preview"}
            /\ pc' = "reading"
            /\ UNCHANGED <<exitStatus, crashed>>
    /\ UNCHANGED <<env, sample, shown, delim, outTouched, output, attempts>>

\* lines 40-46 and 77: the readline loop; the with block closes the handle
\* whether the loop returns or readline raises (a corrupt gzip stream)
PreviewRead ==
    /\ pc = "reading"
    /\ handles' = WithExit(handles, "preview")
    /\ IF inKind = "corrupt"
       THEN Uncaught /\ UNCHANGED sample
       ELSE /\ sample' = read_preview(intext, PreviewLines)
            /\ pc' = "detect"
            /\ UNCHANGED <<exitStatus, crashed>>
    /\ UNCHANGED <<env, shown, delim, outTouched, output, attempts>>

\* lines 78-82
Detect ==
    /\ pc = "detect"
    /\ shown' = PreviewText(sample)
    /\ delim' = detect_delimiter(sample)
    /\ pc' = "pandas"
    /\ UNCHANGED <<env, sample, handles, outTouched, output, attempts, exitStatus, crashed>>

\* lines 84-89: the structured attempt.  It raises when pandas is missing,
\* when read_csv raises, and when to_csv cannot open or write the output;
\* otherwise main falls off its end with exit status 0
TryPandas ==
    /\ pc = "pandas"
    /\ IF ~pandasOk \/ PandasRaises(intext, delim, comment_char)
       THEN /\ attempts' = Append(attempts, <<"structured", "raised">>)
            /\ pc' = "fallback"
            /\ UNCHANGED <<outTouched, output, exitStatus, crashed>>
       ELSE IF outKind = "unwritable"
       THEN /\ attempts' = Append(attempts, <<"structured", "raised">>)
            /\ pc' = "fallback"
            /\ UNCHANGED <<outTouched, output, exitStatus, crashed>>
       ELSE IF outKind = "full"
       THEN /\ attempts' = Append(attempts, <<"structured", "raised">>)
            /\ pc' = "fallback"
            /\ outTouched' = TRUE
            /\ output' = <<>>
            /\ UNCHANGED <<exitStatus, crashed>>
       ELSE /\ attempts' = Append(attempts, <<"structured", "ok">>)
            /\ outTouched' = TRUE
            /\ output' = convert_with_pandas(intext, delim, comment_char)
            /\ Exit(0)
    /\ UNCHANGED <<env, sample, shown, delim, handles>>

\* line 59, first item: convert_fallback opens the input again
FallbackOpenIn ==
    /\ pc = "fallback"
    /\ handles' = handles \cup {"fin"}
    /\ pc' = "fb_out"
    /\ UNCHANGED <<env, sample, shown, delim, outTouched, output, attempts, exitStatus, crashed>>

\* line 59, second item: open(outpath, "w") truncates the output, or raises;
\* the exception closes fin and reaches lines 93-95
FallbackOpenOut ==
    /\ pc = "fb_out"
    /\ IF outKind = "unwritable"
       THEN /\ handles' = WithExit(handles, "fin")
            /\ attempts' = Append(attempts, <<"fallback", "raised">>)
            /\ Exit(3)
            /\ UNCHANGED <<outTouched, output>>
       ELSE /\ handles' = handles \cup {"fout"}
            /\ outTouched' = TRUE
            /\ output' = <<>>
            /\ pc' = "fb_copy"
            /\ UNCHANGED <<attempts, exitStatus, crashed>>
    /\ UNCHANGED <<env, sample, shown, delim>>

\* lines 60-66 and 90-95: the copy loop; both handles are closed when the
\* block is left.  On a full device the first write raises.
FallbackCopy ==
    /\ pc = "fb_copy"
    /\ handles' = WithExit(WithExit(handles, "fout"), "fin")
    /\ IF outKind = "full" /\ convert_fallback(intext, delim, comment_char) # <<>>
       THEN /\ attempts' = Append(attempts, <<"fallback", "raised">>)
            /\ Exit(3)
            /\ UNCHANGED output
       ELSE /\ attempts' = Append(attempts, <<"fallback", "ok">>)
            /\ output' = convert_fallback(intext, delim, comment_char)
            /\ Exit(0)
    /\ UNCHANGED <<env, sample, shown, delim, outTouched>>

Next ==
    \/ CheckArgs
    \/ CheckExists
    \/ PreviewOpen
    \/ PreviewRead
    \/ Detect
    \/ TryPandas
    \/ FallbackOpenIn
    \/ FallbackOpenOut
    \/ FallbackCopy

Spec == Init /\ [][Next]_vars

(***************************************************************************)
(* The detector on its own: main at line 80 with a sample of at most       *)
(* PreviewLines lines                                                      *)
(***************************************************************************)
InitDetect ==
    /\ nargs = 2
    /\ inKind = "file"
    /\ sample \in ShortSamples \cup WideSamples
    /\ intext = sample
    /\ outKind = "ok"
    /\ pandasOk = TRUE
    /\ pc = "detect"
    /\ shown = <<>>
    /\ delim = "none"
    /\ handles = {}
    /\ outTouched = FALSE
    /\ output = <<>>
    /\ attempts = <<>>
    /\ exitStatus = -1
    /\ crashed = FALSE

NextDetect == Detect

SpecDetect == InitDetect /\ [][NextDetect]_vars

(***************************************************************************)
(* Properties                                                              *)
(***************************************************************************)
Done == pc = "done"

\* the run got past the checks of lines 69 and 73
PastChecks == ~(nargs + 1 < 3) /\ inKind # "missing"

StructuredOk == <<"structured", "ok">>
StructuredRaised == <<"structured", "raised">>
FallbackOk == <<"fallback", "ok">>
FallbackRaised == <<"fallback", "raised">>

\* C1: in every run past the argument and existence checks the structured
\* conversion is attempted first and exactly once, the fallback at most once
\* and only after the structured attempt raised; the exit status is 0 iff an
\* attempt completed and 3 iff both raised.
C1_AttemptsAndExit ==
    (Done /\ PastChecks) =>
        /\ attempts \in {<<StructuredOk>>, <<StructuredRaised, FallbackOk>>,
                         <<StructuredRaised, FallbackRaised>>}
        /\ exitStatus = 0 <=> (StructuredOk \in Range(attempts) \/ FallbackOk \in Range(attempts))
        /\ exitStatus = 3 <=> attempts = <<StructuredRaised, FallbackRaised>>

\* a line whose first non-whitespace character is the comment marker
IsCommentLine(line) == LStrip(line) # <<>> /\ Head(LStrip(line)) = comment_char

\* the input lines the records of the output file were read from, in order
OutputLines == [i \in 1..Len(output) |-> output[i].line]

\* C2: whatever the input, the detected delimiter and the conversion path, no
\* input line whose first non-whitespace character is '#' appears as a record
\* of the output file.
C2_CommentLinesNeverWritten ==
    \A i \in 1..Len(output) : ~IsCommentLine(SplitLines(intext)[output[i].line])

\* the non-blank lines of the sample as given
SampleNonBlankLines(smp) == SelectSeq(SplitLines(smp), LAMBDA line : Strip(line) # <<>>)

\* d occurs the same number k > 0 of times on each of the lines ls
ConstantPositive(ls, d) ==
    /\ ls # <<>>
    /\ Count(ls[1], d) > 0
    /\ \A i \in 1..Len(ls) : Count(ls[i], d) = Count(ls[1], d)

\* d has the same count, zero included, on each of the lines ls
Constant(ls, d) == \A i \in 1..Len(ls) : Count(ls[i], d) = Count(ls[1], d)

\* d occurs on none of the lines ls
Absent(ls, d) == \A i \in 1..Len(ls) : Count(ls[i], d) = 0

Detected == pc = "pandas"

\* C3 as stated: when one candidate d occurs exactly k > 0 times on every
\* non-blank line of the sample and no other candidate has a constant
\* per-line count, detect_delimiter returns d.
C3_ConstantCountWins ==
    Detected =>
        \A d \in Range(delims) :
            (/\ ConstantPositive(SampleNonBlankLines(sample), d)
             /\ \A e \in Range(delims) \ {d} : ~Constant(SampleNonBlankLines(sample), e))
            => delim = d

\* the mean count of e over the lines ls is at most that of d
MeanAtMost(ls, e, d) ==
    Sum([i \in 1..Len(ls) |-> Count(ls[i], e)]) <= Sum([i \in 1..Len(ls) |-> Count(ls[i], d)])

\* C3 amended: counting on the non-blank lines of the sample stripped of its
\* leading and trailing whitespace, when one candidate d occurs exactly k > 0
\* times on every line and every other candidate either does not occur or has
\* a varying count whose mean is at most k, detect_delimiter returns d.
C3_ConstantCountWinsAmended ==
    Detected =>
        \A d \in Range(delims) :
            (/\ ConstantPositive(NonBlankLines(sample), d)
             /\ \A e \in Range(delims) \ {d} :
                    \/ Absent(NonBlankLines(sample), e)
                    \/ /\ ~Constant(NonBlankLines(sample), e)
                       /\ MeanAtMost(NonBlankLines(sample), e, d))
            => delim = d

\* C3 witness: comma won with a constant count while every other candidate
\* occurred with a varying count of at most the same mean.
C3_Witness ==
    /\ Detected
    /\ delim = ","
    /\ ConstantPositive(NonBlankLines(sample), ",")
    /\ \A e \in Range(delims) \ {","} :
           /\ ~Constant(NonBlankLines(sample), e)
           /\ MeanAtMost(NonBlankLines(sample), e, ",")

\* C4: with a number of positional arguments other than two the process ends
\* with exit status 1 before it reads the input or touches the output.
C4_WrongArgCountExits1 ==
    nargs # 2 =>
        /\ Done => (exitStatus = 1 /\ ~crashed /\ attempts = <<>>)
        /\ handles = {}
        /\ ~outTouched

\* C5: when the input path names no readable file (it is missing, or it
\* exists but cannot be opened and read), the run ends with exit status 2,
\* reported and not crashed, never touches the output and attempts no
\* conversion.
C5_UnreadableInputExits2 ==
    (~(nargs + 1 < 3) /\ inKind # "file") =>
        /\ Done => (exitStatus = 2 /\ ~crashed)
        /\ ~outTouched
        /\ attempts = <<>>

\* an existing, readable input file with zero lines, given with its output path
EmptyFileRun == ~(nargs + 1 < 3) /\ inKind = "file" /\ intext = <<>>

\* C6 as stated: on an empty input file the run does not crash, shows
\* "(file empty)", detects tab and ends with exit status 0 and an output
\* file of zero rows.
C6_EmptyFileExits0 ==
    (Done /\ EmptyFileRun) =>
        /\ ~crashed
        /\ shown = FileEmpty
        /\ delim = TAB
        /\ exitStatus = 0
        /\ outTouched /\ output = <<>>

\* C6 amended: on an empty input file the run does not crash, shows
\* "(file empty)" and detects tab; the structured attempt raises and the
\* fallback runs; the run ends with exit status 0 and an output file of zero
\* rows when the fallback can open the output for writing, and with exit
\* status 3 and the output untouched when it cannot.
C6_EmptyFileAmended ==
    (Done /\ EmptyFileRun) =>
        /\ ~crashed
        /\ shown = FileEmpty
        /\ delim = TAB
        /\ attempts[1] = StructuredRaised
        /\ outKind # "unwritable" =>
              (exitStatus = 0 /\ attempts = <<StructuredRaised, FallbackOk>>
                 /\ outTouched /\ output = <<>>)
        /\ outKind = "unwritable" =>
              (exitStatus = 3 /\ attempts = <<StructuredRaised, FallbackRaised>>
                 /\ ~outTouched)

\* C6 witness: a run on an empty file ended with exit status 0 after the
\* fallback wrote an output file of zero rows, pandas being installed.
C6_Witness ==
    /\ Done /\ EmptyFileRun /\ pandasOk
    /\ exitStatus = 0
    /\ shown = FileEmpty
    /\ attempts = <<StructuredRaised, FallbackOk>>
    /\ outTouched /\ output = <<>>

\* C7: for a sample that is empty or holds only whitespace, detect_delimiter
\* returns tab, the first candidate.
C7_BlankSampleGivesTab ==
    (Detected /\ \A i \in 1..Len(sample) : sample[i] \in Whitespace) => delim = TAB

\* C7 witness: detection returned tab on a non-empty sample of whitespace
\* that holds a space and a newline.
C7_Witness ==
    /\ Detected
    /\ sample # <<>>
    /\ \A i \in 1..Len(sample) : sample[i] \in Whitespace
    /\ SP \in Range(sample) /\ NL \in Range(sample)
    /\ delim = TAB

\* the first candidate, in the order of delims, whose score is the highest
ArgMaxFirst(smp) ==
    delims[CHOOSE i \in 1..Len(delims) :
        /\ \A j \in 1..Len(delims) : ScoreNum(Counts(smp, delims[j])) <= ScoreNum(Counts(smp, delims[i]))
        /\ \A j \in 1..(i - 1) : ScoreNum(Counts(smp, delims[j])) < ScoreNum(Counts(smp, delims[i]))]

\* C8: for a sample with a non-blank line, detect_delimiter returns the
\* candidate with the highest score mean - variance, the first of them in the
\* order tab, semicolon, comma, pipe, space on a tie, also when every score is
\* negative.
C8_HighestScoreFirstOnTie ==
    (Detected /\ SampleNonBlankLines(sample) # <<>>) => delim = ArgMaxFirst(sample)

\* the numbers of the input lines that are not comment lines, in order
RECURSIVE RetainedLines(_, _)
RetainedLines(lines, i) ==
    IF i > Len(lines) THEN <<>>
    ELSE IF IsCommentLine(lines[i]) THEN RetainedLines(lines, i + 1)
    ELSE <<i>> \o RetainedLines(lines, i + 1)

\* C9: when the structured path fails and the fallback completes, the output
\* holds exactly one record for each input line that is not a comment line,
\* in input order, and none for a comment line.
C9_FallbackOneRecordPerRetainedLine ==
    (Done /\ attempts = <<StructuredRaised, FallbackOk>>) =>
        OutputLines = RetainedLines(SplitLines(intext), 1)

\* C10: every handle read_preview and convert_fallback open is closed on
\* every exit path: none is open when the process has ended, whatever the
\* exit status, and the preview's handle is closed before a conversion
\* attempt starts and opens the input again.
C10_HandlesClosed ==
    /\ Done => handles = {}
    /\ pc \in {"detect", "pandas", "fallback"} => handles = {}
    /\ pc \in {"fb_out", "fb_copy"} => "preview" \notin handles

\* C10 witness: the process has ended with exit status 3 after the fallback
\* raised in the middle of writing, with the output opened, and no handle is
\* open.
C10_Witness ==
    /\ Done /\ exitStatus = 3
    /\ outKind = "full" /\ outTouched
    /\ attempts = <<StructuredRaised, FallbackRaised>>
    /\ handles = {}

====
